---- MODULE Spec2Model ----
(***************************************************************************)
(* Model of thinc/neural/_custom_kernels.py: the module's load sequence    *)
(* (backend import, kernel compilation, handle binding, module-level       *)
(* tests) and its public operations over the ragged batch layout           *)
(* (sum/mean/max pooling, their gradients, and the batched hash).          *)
(*                                                                         *)
(* Arrays are functions over 0-based index ranges, as in the source:       *)
(* a (R x O) buffer is [0..R-1 -> [0..O-1 -> value]].                      *)
(* The CUDA sources (_custom_kernels.cu, _murmur3.cu) and the launch       *)
(* runtime are not part of the Python file; they are modelled from         *)
(* spec.md sections 3, 4.3-4.5 and 9.                                      *)
(***************************************************************************)
EXTENDS Integers, Sequences, FiniteSets, TLC

VARIABLES
    pc,         \* the module-level statement to run next; "loaded", or "aborted"
    cupy,       \* the module global cupy: "unbound", "module", or "None"
    src_names,  \* the entry points present in the kernel source document SRC
    KERNELS,    \* the module global KERNELS: name -> handle
    handles,    \* sum_pool_kernel .. hash_data_kernel: name -> handle
    exc,        \* the exception that aborted the load, "" if none
    op,         \* the public operation last called, "none" before a call
    args,       \* its arguments
    res         \* its outcome: returned buffers, or the exception raised

vars == <<pc, cupy, src_names, KERNELS, handles, exc, op, args, res>>

(* ------------------------------ bounds -------------------------------- *)
MaxT == 3
MaxB == 2
MaxO == 2
MaxThreads == 2
NumTestSeeds == 2

(* --------------------------- program constants ------------------------ *)
DefaultThreads == 128
TestRows == 19
TestCols == 5

Vals == {-1, 1}
Keys == {7, 11}
Seeds == {0, 1}
GroupSizes == (1..MaxThreads) \cup {DefaultThreads}

Min(a, b) == IF a < b THEN a ELSE b
Max(a, b) == IF a > b THEN a ELSE b

(* ------------------------------ arrays -------------------------------- *)
\* cupy.zeros((R, O))
Zeros(R, O) == [r \in 0..(R-1) |-> [j \in 0..(O-1) |-> 0]]

RECURSIVE SumRange(_, _, _)
\* f[lo] + ... + f[hi-1], summed by halves
SumRange(f, lo, hi) ==
    IF hi <= lo THEN 0
    ELSE IF hi = lo + 1 THEN f[lo]
    ELSE SumRange(f, lo, (lo + hi) \div 2) + SumRange(f, (lo + hi) \div 2, hi)

\* lengths[0] + ... + lengths[n-1]; with n = len(lengths) this is lengths.sum()
SumTo(f, n) == SumRange(f, 0, n)

\* prefix(i): the offset of item i's first row
Prefix(lengths, i) == SumTo(lengths, i)

RECURSIVE ColSum(_, _, _, _)
\* X[lo][j] + ... + X[lo+n-1][j]
ColSum(X, j, lo, n) == IF n = 0 THEN 0 ELSE X[lo+n-1][j] + ColSum(X, j, lo, n-1)

RECURSIVE RowTotal(_, _)
RowTotal(row, O) == IF O = 0 THEN 0 ELSE row[O-1] + RowTotal(row, O-1)

RECURSIVE Total(_, _, _)
\* array.sum() of an (R x O) buffer
Total(A, R, O) == IF R = 0 THEN 0 ELSE RowTotal(A[R-1], O) + Total(A, R-1, O)

\* the item owning row t
Owner(lengths, B, t) ==
    CHOOSE b \in 0..(B-1) : Prefix(lengths, b) <= t /\ t < Prefix(lengths, b) + lengths[b]

(* ------------------------- kernel registry ---------------------------- *)
PoolNames == {"sum_pool", "max_pool", "maxout", "backprop_sum_pool", "backprop_max_pool"}

\* parse_kernels: the entry points found in the kernel source document
parse_kernels(names) == [n \in names |-> "source"]

\* compile_kernels(src): line 23 names defaultdict, which the module never imports
compile_kernels(names) ==
    IF cupy = "None"
    THEN [raised |-> "NameError", value |-> <<>>]
    ELSE [raised |-> "", value |-> [n \in DOMAIN parse_kernels(names) |-> "RawKernel"]]

\* compile_mmh(src)
compile_mmh == IF cupy = "None" THEN "None" ELSE "RawKernel"

(* ------------------- launch runtime and kernels ----------------------- *)
\* The number of lanes a launch of (num_blocks,) x (g,) runs: the runtime
\* dispatches at least the first group even for a zero-size grid (spec 9).
Lanes(num_blocks, g) == Max(1, num_blocks) * g

\* sum_pool kernel: lane b < B sums the rows item b owns into output[b]
sum_pool_cu(out, X, lengths, B, T, O, lanes) ==
    [b \in 0..(B-1) |->
        IF b < lanes
        THEN [j \in 0..(O-1) |-> out[b][j] + ColSum(X, j, Prefix(lengths, b), lengths[b])]
        ELSE out[b]]

\* the first (lowest-offset) row of lo..lo+n-1 attaining the maximum at feature j
ArgMaxFirst(X, j, lo, n) ==
    CHOOSE r \in lo..(lo+n-1) :
        /\ \A s \in lo..(lo+n-1) : X[s][j] <= X[r][j]
        /\ \A s \in lo..(r-1) : X[s][j] < X[r][j]

\* max_pool kernel: lane b < B writes the maxima of item b and their row offsets
max_pool_maxes_cu(maxes, X, lengths, B, T, O, lanes) ==
    [b \in 0..(B-1) |->
        IF b < lanes
        THEN [j \in 0..(O-1) |-> X[ArgMaxFirst(X, j, Prefix(lengths, b), lengths[b])][j]]
        ELSE maxes[b]]

max_pool_which_cu(which, X, lengths, B, T, O, lanes) ==
    [b \in 0..(B-1) |->
        IF b < lanes
        THEN [j \in 0..(O-1) |-> ArgMaxFirst(X, j, Prefix(lengths, b), lengths[b])]
        ELSE which[b]]

\* backprop_sum_pool kernel: lane t < T copies the owner's gradient into row t
backprop_sum_pool_cu(out, d_sum, lengths, B, T, O, lanes) ==
    [t \in 0..(T-1) |->
        IF t < lanes
        THEN [j \in 0..(O-1) |-> d_sum[Owner(lengths, B, t)][j]]
        ELSE out[t]]

\* backprop_max_pool kernel: lane t < T passes the gradient where row t was the max
backprop_max_pool_cu(out, d_maxes, which, lengths, B, T, O, lanes) ==
    [t \in 0..(T-1) |->
        IF t < lanes
        THEN [j \in 0..(O-1) |->
                 IF which[Owner(lengths, B, t)][j] = t
                 THEN out[t][j] + d_maxes[Owner(lengths, B, t)][j]
                 ELSE out[t][j]]
        ELSE out[t]]

\* one output word of the seeded hash of a key: a function of (key, seed, c)
\* alone; the mixing is kept within 2^16 so that products stay in range
HashWord(key, seed, c) ==
    ((key * 40503) + (seed * 25173) + ((c + 1) * 13849)) % (2^16)

\* the four 32-bit words of a key
HashTuple(key, seed) == [c \in 0..3 |-> HashWord(key, seed, c)]

\* hash_data kernel: lane t < T writes the four words of key t into row t
hash_data_cu(out, ids, T, seed, lanes) ==
    [t \in 0..(T-1) |-> IF t < lanes THEN HashTuple(ids[t], seed) ELSE out[t]]

(* -------------------------- launch planner ---------------------------- *)
\* the group count of the other operations, used for the forward sum too
SumPoolNumBlocksAsMax(B, g) == Max(1, B \div g)

\* line 53 / line 64: num_blocks = min(1, B // threads_per_block)
SumPoolNumBlocks(B, g) == Min(1, B \div g)

\* lines 79, 92, 112, 126: num_blocks = max(1, extent // threads_per_block)
MaxNumBlocks(extent, g) == Max(1, extent \div g)

(* ------------------------- call outcomes ------------------------------ *)
Raised(e) == [status |-> "raised", exc |-> e, num_blocks |-> 0, out |-> <<>>, which |-> <<>>]
Returned(n, out, which) ==
    [status |-> "returned", exc |-> "", num_blocks |-> n, out |-> out, which |-> which]

\* `out /= lengths` on a (R x O) buffer and a length-B vector, by the
\* broadcasting rule: the vector is aligned with the last axis
BroadcastOk(B, O) == B = O \/ B = 1
InplaceDivide(out, lengths, R, B, O) ==
    [r \in 0..(R-1) |-> [j \in 0..(O-1) |->
        [n |-> out[r][j], d |-> IF B = 1 THEN lengths[0] ELSE lengths[j]]]]

(* ------------------------ public operations --------------------------- *)
\* lines 47-55
sum_pool(X, lengths, hasOut, g, B, T, O) ==
    IF ~hasOut /\ cupy = "None" THEN Raised("AttributeError")
    ELSE LET num_blocks == SumPoolNumBlocks(B, g) IN
         IF handles["sum_pool"] = "None" THEN Raised("TypeError")
         ELSE Returned(num_blocks,
                       sum_pool_cu(Zeros(B, O), X, lengths, B, T, O, Lanes(num_blocks, g)),
                       <<>>)

\* lines 58-67
mean_pool(X, lengths, hasOut, g, B, T, O) ==
    IF ~hasOut /\ cupy = "None" THEN Raised("AttributeError")
    ELSE LET num_blocks == SumPoolNumBlocks(B, g) IN
         IF handles["sum_pool"] = "None" THEN Raised("TypeError")
         ELSE IF ~BroadcastOk(B, O) THEN Raised("ValueError")
         ELSE Returned(num_blocks,
                       InplaceDivide(
                           sum_pool_cu(Zeros(B, O), X, lengths, B, T, O, Lanes(num_blocks, g)),
                           lengths, B, B, O),
                       <<>>)

\* lines 70-82
max_pool(X, lengths, hasOut, g, B, T, O) ==
    IF ~hasOut /\ cupy = "None" THEN Raised("AttributeError")
    ELSE LET num_blocks == MaxNumBlocks(B, g) IN
         IF handles["max_pool"] = "None" THEN Raised("TypeError")
         ELSE Returned(num_blocks,
                       max_pool_maxes_cu(Zeros(B, O), X, lengths, B, T, O, Lanes(num_blocks, g)),
                       max_pool_which_cu(Zeros(B, O), X, lengths, B, T, O, Lanes(num_blocks, g)))

\* lines 85-95
backprop_sum_pool(d_sum, lengths, hasOut, g, B, O) ==
    LET T == SumTo(lengths, B) IN
    IF ~hasOut /\ cupy = "None" THEN Raised("AttributeError")
    ELSE LET num_blocks == MaxNumBlocks(T, g) IN
         IF handles["backprop_sum_pool"] = "None" THEN Raised("TypeError")
         ELSE Returned(num_blocks,
                       backprop_sum_pool_cu(Zeros(T, O), d_sum, lengths, B, T, O,
                                            Lanes(num_blocks, g)),
                       <<>>)

\* lines 98-102
backprop_mean_pool(d_mean, lengths, hasOut, g, B, O) ==
    LET r == backprop_sum_pool(d_mean, lengths, hasOut, g, B, O) IN
    IF r.status = "raised" THEN r
    ELSE IF ~BroadcastOk(B, O) THEN Raised("ValueError")
    ELSE Returned(r.num_blocks,
                  InplaceDivide(r.out, lengths, SumTo(lengths, B), B, O),
                  <<>>)

\* lines 105-115
backprop_max_pool(d_maxes, which, lengths, hasOut, g, B, O) ==
    LET T == SumTo(lengths, B) IN
    IF ~hasOut /\ cupy = "None" THEN Raised("AttributeError")
    ELSE LET num_blocks == MaxNumBlocks(T, g) IN
         IF handles["backprop_max_pool"] = "None" THEN Raised("TypeError")
         ELSE Returned(num_blocks,
                       backprop_max_pool_cu(Zeros(T, O), d_maxes, which, lengths, B, T, O,
                                            Lanes(num_blocks, g)),
                       <<>>)

\* lines 118-129
hash(ids, seed, hasOut, g, T) ==
    IF ~hasOut /\ cupy = "None" THEN Raised("AttributeError")
    ELSE LET num_blocks == MaxNumBlocks(T, g) IN
         IF handles["hash_data"] = "None" THEN Raised("TypeError")
         ELSE Returned(num_blocks,
                       hash_data_cu(Zeros(T, 4), ids, T, seed, Lanes(num_blocks, g)),
                       <<>>)

NoCall == [status |-> "idle", exc |-> "", num_blocks |-> 0, out |-> <<>>, which |-> <<>>]
NoArgs == [hasOut |-> FALSE]

Init ==
    /\ pc = "import"
    /\ cupy = "unbound"
    /\ src_names \in {PoolNames, PoolNames \ {"maxout"}}
    /\ KERNELS = <<>>
    /\ handles = <<>>
    /\ exc = ""
    /\ op = "none"
    /\ args = NoArgs
    /\ res = NoCall

\* lines 5-8: try: import cupy / except ImportError: cupy = None
ImportCupy ==
    /\ pc = "import"
    /\ \E present \in BOOLEAN : cupy' = IF present THEN "module" ELSE "None"
    /\ pc' = "compile_kernels"
    /\ UNCHANGED <<src_names, KERNELS, handles, exc, op, args, res>>

\* line 34: KERNELS = compile_kernels(SRC)
CompileKernels ==
    /\ pc = "compile_kernels"
    /\ LET r == compile_kernels(src_names) IN
         IF r.raised # ""
         THEN /\ pc' = "aborted"
              /\ exc' = r.raised
              /\ KERNELS' = KERNELS
         ELSE /\ pc' = "compile_mmh"
              /\ exc' = exc
              /\ KERNELS' = r.value
    /\ UNCHANGED <<cupy, src_names, handles, op, args, res>>

\* line 37: KERNELS["hash"] = compile_mmh(MMH_SRC)
CompileMmh ==
    /\ pc = "compile_mmh"
    /\ KERNELS' = [n \in (DOMAIN KERNELS) \cup {"hash"} |->
                      IF n = "hash" THEN compile_mmh ELSE KERNELS[n]]
    /\ pc' = "bind"
    /\ UNCHANGED <<cupy, src_names, handles, exc, op, args, res>>

\* lines 39-44: the handle lookups; a missing name raises KeyError
BindHandles ==
    /\ pc = "bind"
    /\ IF PoolNames \subseteq DOMAIN KERNELS
       THEN /\ handles' = [n \in PoolNames \cup {"hash_data"} |->
                              IF n = "hash_data" THEN compile_mmh ELSE KERNELS[n]]
            /\ pc' = "test_sum_pool"
            /\ exc' = exc
       ELSE /\ handles' = handles
            /\ pc' = "aborted"
            /\ exc' = "KeyError"
    /\ UNCHANGED <<cupy, src_names, KERNELS, op, args, res>>

(* ------------------------ module-level tests -------------------------- *)
\* lengths = cupy.array([5,5,3,6]) (lines 135, 143)
TestLengths == [i \in 0..3 |-> CASE i = 0 -> 5 [] i = 1 -> 5 [] i = 2 -> 3 [] OTHER -> 6]

\* m = zeros((19, 5)); m += 1 (lines 133-134)
Ones(R, O) == [r \in 0..(R-1) |-> [j \in 0..(O-1) |-> 1]]

\* m += uniform(-1, 1) with the three injected maxima (lines 141-146); the
\* random draw is one of NumTestSeeds fixed patterns over {-1, 0, 1}
TestMatrix(s) ==
    [r \in 0..(TestRows-1) |-> [j \in 0..(TestCols-1) |->
        CASE r = 4 /\ j = 0 -> 1
          [] r = 0 /\ j = 1 -> 2
          [] r = 1 /\ j = 3 -> 3
          [] OTHER -> ((r * 7 + j * 3 + s * 5) % 3) - 1]]

\* truth = m[start:start+length].max(axis=0) (line 150)
SliceMax(X, j, lo, n) == CHOOSE v \in {X[r][j] : r \in lo..(lo+n-1)} :
                            \A r \in lo..(lo+n-1) : X[r][j] <= v

\* lines 132-137: "" when the test passes, else the exception it raises
test_sum_pool ==
    LET m == Ones(TestRows, TestCols)
        r == sum_pool(m, TestLengths, FALSE, DefaultThreads, 4, TestRows, TestCols)
    IN IF r.status = "raised" THEN r.exc
       ELSE IF Total(r.out, 4, TestCols) = Total(m, TestRows, TestCols) THEN ""
       ELSE "AssertionError"

\* lines 140-152
test_max_pool(s) ==
    LET m == TestMatrix(s)
        r == max_pool(m, TestLengths, FALSE, DefaultThreads, 4, TestRows, TestCols)
    IN IF r.status = "raised" THEN r.exc
       ELSE IF \A i \in 0..3 : \A j \in 0..(TestCols-1) :
                 r.out[i][j] = SliceMax(m, j, Prefix(TestLengths, i), TestLengths[i])
            THEN ""
       ELSE "AssertionError"

\* line 155: test_sum_pool()
RunTestSumPool ==
    /\ pc = "test_sum_pool"
    /\ exc' = test_sum_pool
    /\ pc' = IF test_sum_pool = "" THEN "test_max_pool" ELSE "aborted"
    /\ UNCHANGED <<cupy, src_names, KERNELS, handles, op, args, res>>

\* line 156: test_max_pool()
RunTestMaxPool ==
    /\ pc = "test_max_pool"
    /\ \E s \in 1..NumTestSeeds :
         /\ exc' = test_max_pool(s)
         /\ pc' = IF test_max_pool(s) = "" THEN "loaded" ELSE "aborted"
    /\ UNCHANGED <<cupy, src_names, KERNELS, handles, op, args, res>>

(* ------------------------------ callers ------------------------------- *)
\* A caller or test forcing the backend unavailable after the load (spec 8);
\* the record of the latest call is cleared with it.
ForceUnavailable ==
    /\ pc = "loaded"
    /\ cupy = "module"
    /\ cupy' = "None"
    /\ op' = "none"
    /\ args' = NoArgs
    /\ res' = NoCall
    /\ UNCHANGED <<pc, src_names, KERNELS, handles, exc>>

LengthsOf(B, lo) == {l \in [0..(B-1) -> lo..MaxT] : SumTo(l, B) <= MaxT}
Matrices(R, O) == [0..(R-1) -> [0..(O-1) -> Vals]]

\* the index maps a max_pool over lengths can return: one owned row per (i, j)
IndexMaps(lengths, B, O) ==
    {w \in [0..(B-1) -> [0..(O-1) -> 0..(MaxT-1)]] :
        \A i \in 0..(B-1) : \A j \in 0..(O-1) :
            /\ Prefix(lengths, i) <= w[i][j]
            /\ w[i][j] < Prefix(lengths, i) + lengths[i]}

\* One call is recorded per behaviour: the operations keep no state across
\* calls, so a later call behaves as a first one. A hash call may follow a
\* hash call, so that two runs of the hash can be compared.
CanCall(name) ==
    /\ pc = "loaded"
    /\ op = "none" \/ (op = "hash" /\ name = "hash")

Call(name, a, r) ==
    /\ op' = name
    /\ args' = a
    /\ res' = r
    /\ UNCHANGED <<pc, cupy, src_names, KERNELS, handles, exc>>

CallSumPool ==
    /\ CanCall("sum_pool")
    /\ \E B \in 0..MaxB, O \in 1..MaxO, g \in GroupSizes, hasOut \in BOOLEAN :
      \E lengths \in LengthsOf(B, 0) :
        \E X \in Matrices(SumTo(lengths, B), O) :
          Call("sum_pool",
               [X |-> X, lengths |-> lengths, B |-> B, T |-> SumTo(lengths, B), O |-> O,
                g |-> g, hasOut |-> hasOut],
               sum_pool(X, lengths, hasOut, g, B, SumTo(lengths, B), O))

CallMeanPool ==
    /\ CanCall("mean_pool")
    /\ \E B \in 0..MaxB, O \in 1..MaxO, g \in GroupSizes, hasOut \in BOOLEAN :
      \E lengths \in LengthsOf(B, 0) :
        \E X \in Matrices(SumTo(lengths, B), O) :
          Call("mean_pool",
               [X |-> X, lengths |-> lengths, B |-> B, T |-> SumTo(lengths, B), O |-> O,
                g |-> g, hasOut |-> hasOut],
               mean_pool(X, lengths, hasOut, g, B, SumTo(lengths, B), O))

\* A batch of one more item than the default group size: one-row items of
\* width 1, every value -1 except a 1 at row `hot`.
LongB == DefaultThreads + 1
LongLengths == [i \in 0..(LongB-1) |-> 1]
LongMatrix(hot) == [r \in 0..(LongB-1) |-> [j \in 0..0 |-> IF r = hot THEN 1 ELSE -1]]

\* the (X, lengths) inputs of a max_pool call: every item owns at least one
\* row (the maximum of no rows is not defined); the small batches, and the
\* long batches that exceed one group of the default size
MaxPoolInputs ==
    UNION { UNION { { [X |-> X, lengths |-> lengths, B |-> B, O |-> O] :
                          X \in Matrices(SumTo(lengths, B), O) } :
                      lengths \in LengthsOf(B, 1) } :
              <<B, O>> \in (0..MaxB) \X (1..MaxO) }
    \cup { [X |-> LongMatrix(hot), lengths |-> LongLengths, B |-> LongB, O |-> 1] :
              hot \in {0, LongB - 1} }

CallMaxPool ==
    /\ CanCall("max_pool")
    /\ \E in \in MaxPoolInputs, g \in GroupSizes, hasOut \in BOOLEAN :
          Call("max_pool",
               [X |-> in.X, lengths |-> in.lengths, B |-> in.B,
                T |-> SumTo(in.lengths, in.B), O |-> in.O, g |-> g, hasOut |-> hasOut],
               max_pool(in.X, in.lengths, hasOut, g, in.B, SumTo(in.lengths, in.B), in.O))

CallBackpropSumPool ==
    /\ CanCall("backprop_sum_pool")
    /\ \E B \in 0..MaxB, O \in 1..MaxO, g \in GroupSizes, hasOut \in BOOLEAN :
      \E lengths \in LengthsOf(B, 0) :
        \E d \in Matrices(B, O) :
          Call("backprop_sum_pool",
               [d |-> d, lengths |-> lengths, B |-> B, T |-> SumTo(lengths, B), O |-> O,
                g |-> g, hasOut |-> hasOut],
               backprop_sum_pool(d, lengths, hasOut, g, B, O))

CallBackpropMeanPool ==
    /\ CanCall("backprop_mean_pool")
    /\ \E B \in 0..MaxB, O \in 1..MaxO, g \in GroupSizes, hasOut \in BOOLEAN :
      \E lengths \in LengthsOf(B, 0) :
        \E d \in Matrices(B, O) :
          Call("backprop_mean_pool",
               [d |-> d, lengths |-> lengths, B |-> B, T |-> SumTo(lengths, B), O |-> O,
                g |-> g, hasOut |-> hasOut],
               backprop_mean_pool(d, lengths, hasOut, g, B, O))

CallBackpropMaxPool ==
    /\ CanCall("backprop_max_pool")
    /\ \E B \in 0..MaxB, O \in 1..MaxO, g \in GroupSizes, hasOut \in BOOLEAN :
      \E lengths \in LengthsOf(B, 1) :
        \E d \in Matrices(B, O), which \in IndexMaps(lengths, B, O) :
          Call("backprop_max_pool",
               [d |-> d, which |-> which, lengths |-> lengths, B |-> B,
                T |-> SumTo(lengths, B), O |-> O, g |-> g, hasOut |-> hasOut],
               backprop_max_pool(d, which, lengths, hasOut, g, B, O))

CallHash ==
    /\ CanCall("hash")
    /\ \E T \in 0..MaxT, seed \in Seeds, g \in GroupSizes, hasOut \in BOOLEAN :
      \E ids \in [0..(T-1) -> Keys] :
        Call("hash",
             [ids |-> ids, seed |-> seed, T |-> T, g |-> g, hasOut |-> hasOut],
             hash(ids, seed, hasOut, g, T))

Next ==
    \/ ImportCupy
    \/ CompileKernels
    \/ CompileMmh
    \/ BindHandles
    \/ RunTestSumPool
    \/ RunTestMaxPool
    \/ ForceUnavailable
    \/ CallSumPool
    \/ CallMeanPool
    \/ CallMaxPool
    \/ CallBackpropSumPool
    \/ CallBackpropMeanPool
    \/ CallBackpropMaxPool
    \/ CallHash

Spec == Init /\ [][Next]_vars

(* ====================================================================== *)
(* Properties                                                             *)
(* ====================================================================== *)
Available == cupy = "module"
RowsOf(lengths, i) == Prefix(lengths, i)..(Prefix(lengths, i) + lengths[i] - 1)

\* C1: with the backend present, sum_pool called without an output buffer, at
\* any group size, returns a B x O buffer with out[i][j] the sum of X[r][j]
\* over the rows item i owns, so the output's total equals the total of X.
C1_SumPoolSums ==
    (op = "sum_pool" /\ Available /\ ~args.hasOut) =>
        /\ res.status = "returned"
        /\ \A i \in 0..(args.B-1) : \A j \in 0..(args.O-1) :
              res.out[i][j] = ColSum(args.X, j, Prefix(args.lengths, i), args.lengths[i])
        /\ Total(res.out, args.B, args.O) = Total(args.X, args.T, args.O)

\* C2: max_pool(X, lengths), at the default group size, returns for every item
\* i and feature j the maximum over the rows item i owns, and in which[i][j]
\* the absolute offset of the first owned row attaining it.
C2_MaxPoolFirstArgmax ==
    (op = "max_pool" /\ Available /\ ~args.hasOut /\ args.g = DefaultThreads) =>
        /\ res.status = "returned"
        /\ \A i \in 0..(args.B-1) : \A j \in 0..(args.O-1) :
              /\ res.which[i][j] \in RowsOf(args.lengths, i)
              /\ res.out[i][j] = args.X[res.which[i][j]][j]
              /\ \A r \in RowsOf(args.lengths, i) :
                    /\ args.X[r][j] <= res.out[i][j]
                    /\ r < res.which[i][j] => args.X[r][j] < res.out[i][j]

\* C3: with the backend unavailable, every public operation called without an
\* output buffer returns the unavailable signal (it does not raise).
C3_UnavailableSignal ==
    (op # "none" /\ cupy = "None" /\ ~args.hasOut) => res.status = "unavailable"

\* C4: when the cupy import fails, the load of the module does not abort.
C4_LoadSurvivesMissingBackend ==
    cupy = "None" => pc # "aborted"

\* C5: backprop_max_pool called without an output buffer, at any group size,
\* returns a T x O buffer equal to d_maxes[i][j] at (which[i][j], j) and zero
\* at every other cell.
C5_BackpropMaxScatter ==
    (op = "backprop_max_pool" /\ Available /\ ~args.hasOut) =>
        /\ res.status = "returned"
        /\ DOMAIN res.out = 0..(args.T-1)
        /\ \A i \in 0..(args.B-1) : \A j \in 0..(args.O-1) :
              res.out[args.which[i][j]][j] = args.d[i][j]
        /\ \A t \in 0..(args.T-1) : \A j \in 0..(args.O-1) :
              (\A i \in 0..(args.B-1) : args.which[i][j] # t) => res.out[t][j] = 0

\* C6: backprop_sum_pool called without an output buffer returns sum(Lengths)
\* rows, every row owned by item i equal to d_sum[i], so the rows of item i
\* sum to d_sum[i] * Lengths[i]; for every T, multiple of the group size or not.
C6_BackpropSumBroadcast ==
    (op = "backprop_sum_pool" /\ Available /\ ~args.hasOut) =>
        /\ res.status = "returned"
        /\ DOMAIN res.out = 0..(args.T-1)
        /\ \A i \in 0..(args.B-1) :
              /\ \A r \in RowsOf(args.lengths, i) : res.out[r] = args.d[i]
              /\ \A j \in 0..(args.O-1) :
                    ColSum(res.out, j, Prefix(args.lengths, i), args.lengths[i])
                        = args.d[i][j] * args.lengths[i]

AllPositive(lengths, B) == \A i \in 0..(B-1) : lengths[i] >= 1

\* C7: on a non-empty batch with every length >= 1, mean_pool returns a B x O buffer with out[i][j]
\* the sum-pool value of item i at feature j divided by Lengths[i], for every
\* B and O.
C7_MeanPoolDividesByOwnLength ==
    (op = "mean_pool" /\ Available /\ ~args.hasOut /\ args.B >= 1
        /\ AllPositive(args.lengths, args.B)) =>
        /\ res.status = "returned"
        /\ \A i \in 0..(args.B-1) : \A j \in 0..(args.O-1) :
              /\ res.out[i][j].d # 0
              /\ res.out[i][j].n * args.lengths[i]
                   = ColSum(args.X, j, Prefix(args.lengths, i), args.lengths[i])
                       * res.out[i][j].d

\* C8: on a non-empty batch with every length >= 1, backprop_mean_pool returns sum(Lengths) rows of
\* width O, every row owned by item i equal to d_mean[i] / Lengths[i], for
\* every B, T and O.
C8_BackpropMeanDividesByOwnerLength ==
    (op = "backprop_mean_pool" /\ Available /\ ~args.hasOut /\ args.B >= 1
        /\ AllPositive(args.lengths, args.B)) =>
        /\ res.status = "returned"
        /\ DOMAIN res.out = 0..(args.T-1)
        /\ \A i \in 0..(args.B-1) : \A r \in RowsOf(args.lengths, i) :
              \A j \in 0..(args.O-1) :
                 /\ res.out[r][j].d # 0
                 /\ res.out[r][j].n * args.lengths[i] = args.d[i][j] * res.out[r][j].d

\* C9: two hash runs with the same seed agree on the output row of every key,
\* whatever the key's position, the batch size and the group size of each run.
C9_HashDeterministic ==
    [][(op = "hash" /\ op' = "hash" /\ Available /\ ~args.hasOut /\ ~args'.hasOut
            /\ args.seed = args'.seed) =>
          /\ res.status = "returned" /\ res'.status = "returned"
          /\ \A p \in 0..(args.T-1) : \A q \in 0..(args'.T-1) :
                args.ids[p] = args'.ids[q] => res.out[p] = res'.out[q]]_vars

\* max(1, extent // g), stated without the operator: at least one group, and
\* the floor of extent / g when that is more than one
IsClampedQuotient(n, extent, g) ==
    /\ n >= 1
    /\ n = 1 \/ n * g <= extent
    /\ (n + 1) * g > extent

GroupCountsOfOthers ==
    /\ (op = "max_pool" /\ res.status = "returned") =>
          IsClampedQuotient(res.num_blocks, args.B, args.g)
    /\ (op \in {"backprop_sum_pool", "backprop_mean_pool", "backprop_max_pool", "hash"}
          /\ res.status = "returned") =>
          IsClampedQuotient(res.num_blocks, args.T, args.g)

\* C10 (as stated): sum_pool and mean_pool dispatch a single group for every B
\* except B = 0; the other operations dispatch max(1, extent // g) groups.
C10_SingleGroupUnlessEmpty ==
    /\ (op \in {"sum_pool", "mean_pool"} /\ res.status = "returned") =>
          res.num_blocks = IF args.B = 0 THEN 0 ELSE 1
    /\ GroupCountsOfOthers

\* C10 (amended): sum_pool and mean_pool compute min(1, B // g) groups, which is
\* 0 for every B < g and 1 for every B >= g; the other operations dispatch
\* max(1, extent // g) groups, never zero.
C10_GroupCounts ==
    /\ (op \in {"sum_pool", "mean_pool"} /\ res.status = "returned") =>
          res.num_blocks = IF args.B < args.g THEN 0 ELSE 1
    /\ GroupCountsOfOthers

\* C10 witness: a sum_pool over a non-empty batch smaller than the group size
\* has returned with a group count of zero.
C10_Witness ==
    /\ op = "sum_pool"
    /\ res.status = "returned"
    /\ args.B >= 1
    /\ args.B < args.g
    /\ res.num_blocks = 0

====
